---- MODULE Spec2Model ----
(***************************************************************************)
(* Model of src/qcutils.py: quality control of CODAR SeaSonde radialmetric *)
(* tables (threshold tests), weighted averaging of radial velocities per   *)
(* (range cell, bearing) and the radialshort table built from them.        *)
(*                                                                         *)
(* A table (numpy 2-D array read through get_columns(types_str)) is a      *)
(* sequence of rows; a row is a function from column name to cell.  Cells  *)
(* are integers; the float not-a-number is the value NaN below and the     *)
(* comparison operators treat it as IEEE-754 does (every comparison with   *)
(* NaN is false).  Cells that hold averages are exact fractions <<n, m>>.  *)
(***************************************************************************)
EXTENDS Integers, Sequences, FiniteSets, TLC

VARIABLES
    d,        \* the caller's radialmetric table
    op,       \* the operation that ran last
    err,      \* "none", or the exception the last operation raised
    thr,      \* thresholds the last threshold test was called with
    dq,       \* table returned by the last threshold test
    spread,   \* bearing_spread of the last weighted_velocities call
    policy,   \* weight_parameter of the last weighted_velocities call
    xd,       \* averaged table returned by weighted_velocities
    xrows,    \* per row of xd: the rows of d numpy.where() matched (xrow)
    rsd,      \* the caller's radialshort table (skeleton, filled in place)
    rsdtypes, \* its schema (rsdtypes_str)
    skIn      \* the skeleton as it was handed to fill_radialshort_array

vars == <<d, op, err, thr, dq, spread, policy, xd, xrows, rsd, rsdtypes, skIn>>

-----------------------------------------------------------------------------
(* Floating point cells *)

\* numpy.nan: the cell value that is not a number
NaN == -999

isnan(x) == x = NaN

\* a < b, a > b, a == b, a >= b, a <= b on floats: false when either is NaN
FLt(a, b) == ~isnan(a) /\ ~isnan(b) /\ a < b
FGt(a, b) == ~isnan(a) /\ ~isnan(b) /\ a > b
FEq(a, b) == ~isnan(a) /\ ~isnan(b) /\ a = b
FGe(a, b) == ~isnan(a) /\ ~isnan(b) /\ a >= b
FLe(a, b) == ~isnan(a) /\ ~isnan(b) /\ a <= b

\* a + b on floats: NaN when either is NaN
FAdd(a, b) == IF isnan(a) \/ isnan(b) THEN NaN ELSE a + b

\* 1 << n
Shl1(n) == 2 ^ n

-----------------------------------------------------------------------------
(* Threshold tests *)

\* default thresholds: peak power (dB), half power width (deg), monopole SNR (dB)
DefaultPeakPower == 5
DefaultHalfPowerWidth == 50
DefaultMonopoleSnr == 5

\* The result of a call: the argument table as the call leaves it (arg) and
\* the table the call returns (ret).  numpy.copy(d) makes ret a new array, so
\* the assignment to the copy leaves the argument as it was.

threshold_qc_doa_peak_power_inplace(dd, threshold) ==
    LET havenan(i) == isnan(dd[i]["MSR1"]) \/ isnan(dd[i]["MDR1"]) \/ isnan(dd[i]["MDR2"])
        bad(i) == \/ (FEq(dd[i]["MSEL"], 1) /\ FLt(dd[i]["MSR1"], threshold))
                  \/ (FEq(dd[i]["MSEL"], 2) /\ FLt(dd[i]["MDR1"], threshold))
                  \/ (FEq(dd[i]["MSEL"], 3) /\ FLt(dd[i]["MDR2"], threshold))
                  \/ havenan(i)
        d1 == [i \in 1..Len(dd) |->
                 IF bad(i) THEN [dd[i] EXCEPT !["VFLG"] = FAdd(dd[i]["VFLG"], Shl1(1))]
                           ELSE dd[i]]
    IN  [arg |-> d1, ret |-> d1]

threshold_qc_doa_peak_power_le(dd, threshold) ==
    LET havenan(i) == isnan(dd[i]["MSR1"]) \/ isnan(dd[i]["MDR1"]) \/ isnan(dd[i]["MDR2"])
        bad(i) == \/ (FEq(dd[i]["MSEL"], 1) /\ FLe(dd[i]["MSR1"], threshold))
                  \/ (FEq(dd[i]["MSEL"], 2) /\ FLe(dd[i]["MDR1"], threshold))
                  \/ (FEq(dd[i]["MSEL"], 3) /\ FLe(dd[i]["MDR2"], threshold))
                  \/ havenan(i)
        d1 == [i \in 1..Len(dd) |->
                 IF bad(i) THEN [dd[i] EXCEPT !["VFLG"] = FAdd(dd[i]["VFLG"], Shl1(1))]
                           ELSE dd[i]]
    IN  [arg |-> dd, ret |-> d1]

threshold_qc_doa_peak_power(dd, threshold) ==
    LET havenan(i) == isnan(dd[i]["MSR1"]) \/ isnan(dd[i]["MDR1"]) \/ isnan(dd[i]["MDR2"])
        bad(i) == \/ (FEq(dd[i]["MSEL"], 1) /\ FLt(dd[i]["MSR1"], threshold))
                  \/ (FEq(dd[i]["MSEL"], 2) /\ FLt(dd[i]["MDR1"], threshold))
                  \/ (FEq(dd[i]["MSEL"], 3) /\ FLt(dd[i]["MDR2"], threshold))
                  \/ havenan(i)
        d1 == [i \in 1..Len(dd) |->
                 IF bad(i) THEN [dd[i] EXCEPT !["VFLG"] = FAdd(dd[i]["VFLG"], Shl1(1))]
                           ELSE dd[i]]
    IN  [arg |-> dd, ret |-> d1]

threshold_qc_doa_half_power_width_wrong_column(dd, threshold) ==
    LET havenan(i) == isnan(dd[i]["MSW1"]) \/ isnan(dd[i]["MDW1"]) \/ isnan(dd[i]["MDW2"])
        bad(i) == \/ (FEq(dd[i]["MSEL"], 1) /\ FGt(dd[i]["MSW1"], threshold))
                  \/ (FEq(dd[i]["MSEL"], 2) /\ FGt(dd[i]["MDW1"], threshold))
                  \/ (FEq(dd[i]["MSEL"], 3) /\ FGt(dd[i]["MDW2"], threshold))
                  \/ havenan(i)
        d2 == [i \in 1..Len(dd) |->
                 IF bad(i) THEN [dd[i] EXCEPT !["MSEL"] = FAdd(dd[i]["VFLG"], Shl1(2))]
                           ELSE dd[i]]
    IN  [arg |-> dd, ret |-> d2]

threshold_qc_doa_half_power_width_any_channel(dd, threshold) ==
    LET havenan(i) == isnan(dd[i]["MSW1"]) \/ isnan(dd[i]["MDW1"]) \/ isnan(dd[i]["MDW2"])
        bad(i) == \/ FGt(dd[i]["MSW1"], threshold)
                  \/ (FEq(dd[i]["MSEL"], 2) /\ FGt(dd[i]["MDW1"], threshold))
                  \/ (FEq(dd[i]["MSEL"], 3) /\ FGt(dd[i]["MDW2"], threshold))
                  \/ havenan(i)
        d2 == [i \in 1..Len(dd) |->
                 IF bad(i) THEN [dd[i] EXCEPT !["VFLG"] = FAdd(dd[i]["VFLG"], Shl1(2))]
                           ELSE dd[i]]
    IN  [arg |-> dd, ret |-> d2]

threshold_qc_doa_half_power_width(dd, threshold) ==
    LET havenan(i) == isnan(dd[i]["MSW1"]) \/ isnan(dd[i]["MDW1"]) \/ isnan(dd[i]["MDW2"])
        bad(i) == \/ (FEq(dd[i]["MSEL"], 1) /\ FGt(dd[i]["MSW1"], threshold))
                  \/ (FEq(dd[i]["MSEL"], 2) /\ FGt(dd[i]["MDW1"], threshold))
                  \/ (FEq(dd[i]["MSEL"], 3) /\ FGt(dd[i]["MDW2"], threshold))
                  \/ havenan(i)
        d2 == [i \in 1..Len(dd) |->
                 IF bad(i) THEN [dd[i] EXCEPT !["VFLG"] = FAdd(dd[i]["VFLG"], Shl1(2))]
                           ELSE dd[i]]
    IN  [arg |-> dd, ret |-> d2]

threshold_qc_monopole_snr_subtract(dd, threshold) ==
    LET bad(i) == FLt(dd[i]["MA3S"], threshold)
        d3 == [i \in 1..Len(dd) |->
                 IF bad(i) THEN [dd[i] EXCEPT !["VFLG"] = FAdd(dd[i]["VFLG"], 0 - Shl1(3))]
                           ELSE dd[i]]
    IN  [arg |-> dd, ret |-> d3]

threshold_qc_monopole_snr(dd, threshold) ==
    LET bad(i) == FLt(dd[i]["MA3S"], threshold)
        d3 == [i \in 1..Len(dd) |->
                 IF bad(i) THEN [dd[i] EXCEPT !["VFLG"] = FAdd(dd[i]["VFLG"], Shl1(3))]
                           ELSE dd[i]]
    IN  [arg |-> dd, ret |-> d3]

\* Each test is handed the table the test before it returned; the caller's
\* table is the argument of the first test only.
threshold_qc_all(dd, thresholds) ==
    LET r1 == threshold_qc_doa_peak_power(dd, thresholds[1])
        r2 == threshold_qc_doa_half_power_width(r1.ret, thresholds[2])
        r3 == threshold_qc_monopole_snr(r2.ret, thresholds[3])
    IN  [arg |-> r1.arg, ret |-> r3.ret]

-----------------------------------------------------------------------------
(* Exact fractions for the cells that hold averages *)

\* the not-a-number fraction (0/0)
FracNaN == <<0, 0>>

Abs(x) == IF x < 0 THEN 0 - x ELSE x

RECURSIVE GCD(_, _)
GCD(a, b) == IF b = 0 THEN a ELSE GCD(b, a % b)

\* n/m in lowest terms with a positive denominator; x/0 is not a number
Frac(n, m) ==
    IF m = 0 THEN FracNaN
    ELSE LET g == GCD(Abs(n), Abs(m))
             s == IF m < 0 THEN 0 - 1 ELSE 1
         IN  <<(s * n) \div g, (s * m) \div g>>

FracIsNaN(q) == q[2] = 0

RECURSIVE SumOver(_, _)
\* sum of f[k] over the sequence of indices s
SumOver(f, s) == IF s = <<>> THEN 0 ELSE f[Head(s)] + SumOver(f, Tail(s))

RECURSIVE AscSeq(_)
\* the elements of a set of integers in ascending order
AscSeq(S) ==
    IF S = {} THEN <<>>
    ELSE LET m == CHOOSE x \in S : \A y \in S : x <= y
         IN  <<m>> \o AscSeq(S \ {m})

SeqMax(f, s) == CHOOSE x \in {f[k] : k \in DOMAIN f} :
                   /\ \E j \in DOMAIN s : f[s[j]] = x
                   /\ \A j \in DOMAIN s : f[s[j]] <= x
SeqMin(f, s) == CHOOSE x \in {f[k] : k \in DOMAIN f} :
                   /\ \E j \in DOMAIN s : f[s[j]] = x
                   /\ \A j \in DOMAIN s : f[s[j]] >= x

-----------------------------------------------------------------------------
(* Unique rows and sorting *)

\* a[:, cols]: the sub-array of the named columns, a row being a tuple
SubArray(a, cols) == [i \in 1..Len(a) |-> [k \in 1..Len(cols) |-> a[i][cols[k]]]]

\* order of two rows of one width: by the first column, then the next, ...
LexLt(a, b) == \E k \in 1..Len(a) : (\A j \in 1..(k - 1) : a[j] = b[j]) /\ a[k] < b[k]

RECURSIVE SortRows(_)
SortRows(S) ==
    IF S = {} THEN <<>>
    ELSE LET m == CHOOSE x \in S : \A y \in S \ {x} : LexLt(x, y)
         IN  <<m>> \o SortRows(S \ {m})

\* numpy.unique over whole rows: the distinct rows, sorted column by column
unique_rows(a) == SortRows({a[i] : i \in DOMAIN a})

\* numpy.lexsort((secondary, primary)): the stable order of the row indices
\* by the last key first
lexsort(keys) ==
    LET n == Len(keys[1])
        sorted == SortRows({<<keys[2][i], keys[1][i], i>> : i \in 1..n})
    IN  [k \in 1..n |-> sorted[k][3]]

\* a[:, k] of an array of tuples
Column(a, k) == [i \in 1..Len(a) |-> a[i][k]]

\* ud[ud[:, 2] == 0] with the flag in tuple position k
GoodRows(a, k) == SelectSeq(a, LAMBDA row : FEq(row[k], 0))

-----------------------------------------------------------------------------
(* Column registry *)

\* get_columns(types_str): column name -> position in the schema
get_columns(types_str) ==
    [name \in {types_str[k] : k \in DOMAIN types_str} |->
        CHOOSE k \in DOMAIN types_str : types_str[k] = name]

\* schema of the averaged table, and of the 'LLUV RDL7' radialshort table
xtypes_str == <<"SPRC", "BEAR", "VELO", "ESPC", "MAXV", "MINV", "EDVC", "ERSC">>
rsdtypes_RDL7 == <<"LOND", "LATD", "VELU", "VELV", "VFLG", "ESPC", "MAXV", "MINV", "EDVC",
                   "ERSC", "XDST", "YDST", "RNGE", "BEAR", "VELO", "HEAD", "SPRC">>

\* columns that hold fractions; their "no data" is FracNaN, the others' NaN
FracColumns == {"VELO", "ESPC", "VELU", "VELV", "XDST", "YDST"}

\* numpy.ones(shape) * numpy.nan, one row
NaNRow(types_str) ==
    [name \in DOMAIN get_columns(types_str) |->
        IF name \in FracColumns THEN FracNaN ELSE NaN]

-----------------------------------------------------------------------------
(* Weighted averaging *)

\* str.upper() on the weight_parameter names in use
Upper(s) ==
    CASE s = "mp" -> "MP"
      [] s = "snr3" -> "SNR3"
      [] s = "snr" -> "SNR"
      [] s = "none" -> "NONE"
      [] OTHER -> s

\* numpy.power(10, MP/10.) for a power in dB that is a non-negative multiple of 10
DbToLinear_raw(db) == db

DbToLinear(db) == IF isnan(db) THEN NaN ELSE 10 ^ (db \div 10)

\* numpy.dot(v, w / w.sum()) over the matched rows s, as an exact fraction
WeightedMean(v, w, s) ==
    IF \E j \in DOMAIN s : isnan(v[s[j]]) \/ isnan(w[s[j]]) THEN FracNaN
    ELSE Frac(SumOver([j \in DOMAIN v |-> v[j] * w[j]], s), SumOver(w, s))

\* v.mean() over the matched rows s
Mean_over_table(v, s) ==
    IF \E j \in DOMAIN s : isnan(v[s[j]]) THEN FracNaN
    ELSE Frac(SumOver(v, s), Len(v))

Mean(v, s) ==
    IF \E j \in DOMAIN s : isnan(v[s[j]]) THEN FracNaN
    ELSE Frac(SumOver(v, s), Len(s))

\* v.std() over the matched rows s (population standard deviation), held as
\* its square: (n * sum(v^2) - sum(v)^2) / n^2
StdSquared(v, s) ==
    IF \E j \in DOMAIN s : isnan(v[s[j]]) THEN FracNaN
    ELSE Frac(Len(s) * SumOver([j \in DOMAIN v |-> v[j] * v[j]], s)
                - SumOver(v, s) * SumOver(v, s), Len(s) * Len(s))

Max(v, s) == IF \E j \in DOMAIN s : isnan(v[s[j]]) THEN NaN ELSE SeqMax(v, s)
Min(v, s) == IF \E j \in DOMAIN s : isnan(v[s[j]]) THEN NaN ELSE SeqMin(v, s)

\* ud: the distinct (SPRC, BEAR, VFLG) rows with VFLG == 0, sorted by range
\* cell, then bearing
UniqueGoodCells_bearing_first(dd) ==
    LET ud0 == unique_rows(SubArray(dd, <<"SPRC", "BEAR", "VFLG">>))
        ud1 == GoodRows(ud0, 3)
        idx == lexsort(<<Column(ud1, 1), Column(ud1, 2)>>)
    IN  [k \in 1..Len(ud1) |-> ud1[idx[k]]]

UniqueGoodCells(dd) ==
    LET ud0 == unique_rows(SubArray(dd, <<"SPRC", "BEAR", "VFLG">>))
        ud1 == GoodRows(ud0, 3)
        idx == lexsort(<<Column(ud1, 2), Column(ud1, 1)>>)
    IN  [k \in 1..Len(ud1) |-> ud1[idx[k]]]

\* xrow: numpy.where(...)[0], the indices in ascending order of the rows of
\* the whole table in the cell's range cell, inside the bearing window, VFLG 0
MatchedRows_any_flag(dd, rngcell, bearing, offset) ==
    AscSeq({j \in 1..Len(dd) :
              /\ FEq(dd[j]["SPRC"], rngcell)
              /\ FGe(dd[j]["BEAR"], FAdd(bearing, 0 - offset))
              /\ FLe(dd[j]["BEAR"], FAdd(bearing, offset))})

MatchedRows_open_window(dd, rngcell, bearing, offset) ==
    AscSeq({j \in 1..Len(dd) :
              /\ FEq(dd[j]["SPRC"], rngcell)
              /\ FGt(dd[j]["BEAR"], FAdd(bearing, 0 - offset))
              /\ FLt(dd[j]["BEAR"], FAdd(bearing, offset))
              /\ FEq(dd[j]["VFLG"], 0)})

MatchedRows(dd, rngcell, bearing, offset) ==
    AscSeq({j \in 1..Len(dd) :
              /\ FEq(dd[j]["SPRC"], rngcell)
              /\ FGe(dd[j]["BEAR"], FAdd(bearing, 0 - offset))
              /\ FLe(dd[j]["BEAR"], FAdd(bearing, offset))
              /\ FEq(dd[j]["VFLG"], 0)})

\* The result of the call: the argument as the call leaves it (arg), the
\* returned table (ret), the rows matched for each cell (xrow) and the
\* exception raised (err).  An unknown weight_parameter leaves velo unbound,
\* so the first cell with a matched row raises at "xd[irow, VELO] = velo".
weighted_velocities(dd, bearing_spread, weight_parameter) ==
    LET offset == bearing_spread
        ud  == UniqueGoodCells(dd)
        nrows == Len(ud)
        xrow == [irow \in 1..nrows |-> MatchedRows(dd, ud[irow][1], ud[irow][2], offset)]
        VELO == [j \in 1..Len(dd) |-> dd[j]["VELO"]]
        SNR3 == [j \in 1..Len(dd) |-> dd[j]["MA3S"]]
        MP   == [j \in 1..Len(dd) |->
                   DbToLinear(IF FEq(dd[j]["MSEL"], 1) THEN dd[j]["MSP1"]
                              ELSE IF FEq(dd[j]["MSEL"], 2) THEN dd[j]["MDP1"]
                              ELSE IF FEq(dd[j]["MSEL"], 3) THEN dd[j]["MDP2"]
                              ELSE NaN)]
        wp == Upper(weight_parameter)
        bound == wp \in {"MP", "SNR3", "SNR", "NONE"}
        velo(s) == IF wp = "MP" THEN WeightedMean(VELO, MP, s)
                   ELSE IF wp = "SNR3" \/ wp = "SNR" THEN WeightedMean(VELO, SNR3, s)
                   ELSE Mean(VELO, s)
        xdrow(irow) ==
            IF Len(xrow[irow]) = 0 THEN NaNRow(xtypes_str)
            ELSE [NaNRow(xtypes_str) EXCEPT
                    !["SPRC"] = ud[irow][1],
                    !["BEAR"] = ud[irow][2],
                    !["VELO"] = velo(xrow[irow]),
                    !["ESPC"] = StdSquared(VELO, xrow[irow]),
                    !["MAXV"] = Max(VELO, xrow[irow]),
                    !["MINV"] = Min(VELO, xrow[irow]),
                    !["EDVC"] = Len(xrow[irow]),
                    !["ERSC"] = Len(xrow[irow])]
        raises == ~bound /\ \E irow \in 1..nrows : Len(xrow[irow]) > 0
    IN  IF raises
        THEN [arg |-> dd, ret |-> <<>>, xrow |-> <<>>, err |-> "UnboundLocalError"]
        ELSE [arg |-> dd, ret |-> [irow \in 1..nrows |-> xdrow(irow)],
              xrow |-> xrow, err |-> "none"]

-----------------------------------------------------------------------------
(* Radialshort table *)

\* sin and cos of a compass direction in degrees, for whole quarter turns
SinDeg(a) == CASE a % 360 = 0 -> 0 [] a % 360 = 90 -> 1
               [] a % 360 = 180 -> 0 [] a % 360 = 270 -> 0 - 1
CosDeg(a) == CASE a % 360 = 0 -> 1 [] a % 360 = 90 -> 0
               [] a % 360 = 180 -> 0 - 1 [] a % 360 = 270 -> 0

\* (u, v) = (wmag * sin(wdir), wmag * cos(wdir)); wmag a fraction, wdir degrees
compass2uv(wmag, wdir) ==
    IF FracIsNaN(wmag) \/ isnan(wdir) THEN <<FracNaN, FracNaN>>
    ELSE <<Frac(wmag[1] * SinDeg(wdir), wmag[2]), Frac(wmag[1] * CosDeg(wdir), wmag[2])>>

\* a float cell as a fraction
ToFrac(x) == IF isnan(x) THEN FracNaN ELSE Frac(x, 1)

\* The skeleton: the distinct (LOND, LATD, VFLG, RNGE, BEAR, SPRC) rows with
\* VFLG == 0, sorted by range cell then bearing (stable), every other column
\* not-a-number.  An unrecognized table_type returns an empty array and ''.
generate_radialshort_array(dd, table_type) ==
    IF table_type # "LLUV RDL7"
    THEN [arg |-> dd, ret |-> <<>>, types |-> <<>>]
    ELSE
    LET dcol == <<"LOND", "LATD", "VFLG", "RNGE", "BEAR", "SPRC">>
        ud0 == unique_rows(SubArray(dd, dcol))
        ud1 == GoodRows(ud0, 3)
        idx == lexsort(<<Column(ud1, 5), Column(ud1, 6)>>)
        ud  == [k \in 1..Len(ud1) |-> ud1[idx[k]]]
        nrows == Len(ud)
        pos == get_columns(dcol)
        rs  == [i \in 1..nrows |->
                  [name \in DOMAIN get_columns(rsdtypes_RDL7) |->
                      IF name \in DOMAIN pos THEN ud[i][pos[name]]
                      ELSE NaNRow(rsdtypes_RDL7)[name]]]
    IN  [arg |-> dd, ret |-> rs, types |-> rsdtypes_RDL7]

\* rows of the named columns, as compared by the alignment assertion
Cells(t) == [i \in 1..Len(t) |-> <<t[i]["SPRC"], t[i]["BEAR"]>>]

\* (rscells == xcells).all()
AllEqual(a, b) == \A i \in 1..Len(a) : FEq(a[i][1], b[i][1]) /\ FEq(a[i][2], b[i][2])

\* what the call writes into rsd once both assertions passed
FilledRow(rsrow, xrow) ==
    LET r1 == [rsrow EXCEPT !["VELO"] = xrow["VELO"], !["ESPC"] = xrow["ESPC"],
                            !["MAXV"] = xrow["MAXV"], !["MINV"] = xrow["MINV"],
                            !["EDVC"] = xrow["EDVC"], !["ERSC"] = xrow["ERSC"]]
        bear == r1["BEAR"]
        head == IF isnan(bear) THEN NaN ELSE (bear + 180) % 360
        uv == compass2uv(r1["VELO"], head)
        xy == compass2uv(ToFrac(r1["RNGE"]), bear)
    IN  [r1 EXCEPT !["VELU"] = uv[1], !["VELV"] = uv[2], !["HEAD"] = head,
                   !["XDST"] = xy[1], !["YDST"] = xy[2]]

\* The result of the call: the skeleton argument as the call leaves it
\* (arg), the averaged table as the call leaves it (xarg), the returned
\* table (ret: the skeleton array itself) and the exception raised (err).
fill_radialshort_array_same_set(sk, sktypes, xdt, xtypes) ==
    LET rsc == get_columns(sktypes)
        xc  == get_columns(xtypes)
    IN  IF ~({"SPRC", "BEAR", "VELO", "ESPC", "MAXV", "MINV", "EDVC", "ERSC"}
               \subseteq DOMAIN rsc)
        THEN [arg |-> sk, xarg |-> xdt, ret |-> <<>>, err |-> "SchemaError"]
        ELSE IF Len(sk) # Len(xdt)
                \/ {Cells(sk)[i] : i \in 1..Len(sk)} # {Cells(xdt)[i] : i \in 1..Len(xdt)}
        THEN [arg |-> sk, xarg |-> xdt, ret |-> <<>>, err |-> "AssertionError"]
        ELSE LET filled == [i \in 1..Len(sk) |-> FilledRow(sk[i], xdt[i])]
             IN  [arg |-> filled, xarg |-> xdt, ret |-> filled, err |-> "none"]

fill_radialshort_array(sk, sktypes, xdt, xtypes) ==
    LET rsc == get_columns(sktypes)
        xc  == get_columns(xtypes)
    IN  IF ~({"SPRC", "BEAR", "VELO", "ESPC", "MAXV", "MINV", "EDVC", "ERSC"}
               \subseteq DOMAIN rsc)
        THEN [arg |-> sk, xarg |-> xdt, ret |-> <<>>, err |-> "SchemaError"]
        ELSE IF Len(sk) # Len(xdt) \/ ~AllEqual(Cells(sk), Cells(xdt))
        THEN [arg |-> sk, xarg |-> xdt, ret |-> <<>>, err |-> "AssertionError"]
        ELSE LET filled == [i \in 1..Len(sk) |-> FilledRow(sk[i], xdt[i])]
             IN  [arg |-> filled, xarg |-> xdt, ret |-> filled, err |-> "none"]

-----------------------------------------------------------------------------
(* Input tables *)

\* longest table of mixed rows given to a threshold test
MaxRowsQC == 2
\* longest table given to the averaging pipeline
MaxRows == 3

\* the columns of a radialmetric table that the functions read
InputColumns == {"LOND", "LATD", "RNGE", "BEAR", "SPRC", "VELO", "VFLG", "MSEL",
                 "MSR1", "MDR1", "MDR2", "MSW1", "MDW1", "MDW2", "MA3S",
                 "MSP1", "MDP1", "MDP2"}

\* a good observation that passes every threshold test at its default
BaseRow ==
    [name \in InputColumns |->
        CASE name \in {"MSR1", "MDR1", "MDR2"} -> DefaultPeakPower
          [] name \in {"MSW1", "MDW1", "MDW2"} -> DefaultHalfPowerWidth
          [] name = "MA3S" -> DefaultMonopoleSnr
          [] name \in {"MSEL", "SPRC", "RNGE", "VELO"} -> 1
          [] OTHER -> 0]

\* BaseRow with the cells of `over` written over it
Row(over) == [name \in InputColumns |->
                 IF name \in DOMAIN over THEN over[name] ELSE BaseRow[name]]

\* cell values on both sides of each threshold, the threshold itself, no value
PowVals == {NaN, DefaultPeakPower - 1, DefaultPeakPower}
WidVals == {NaN, DefaultHalfPowerWidth, DefaultHalfPowerWidth + 1}
SnrVals == {NaN, DefaultMonopoleSnr - 1, DefaultMonopoleSnr}
MselVals == {0, 1, 2, 3, NaN}

\* single rows: every selector with every combination of the three channels
RowsPeak == {Row([VFLG |-> f, MSEL |-> m, MSR1 |-> a, MDR1 |-> b, MDR2 |-> c]) :
               f \in {0, 1, 2}, m \in MselVals, a \in PowVals, b \in PowVals, c \in PowVals}
RowsWidth == {Row([VFLG |-> f, MSEL |-> m, MSW1 |-> a, MDW1 |-> b, MDW2 |-> c]) :
               f \in {0, 1, 4}, m \in MselVals, a \in WidVals, b \in WidVals, c \in WidVals}
RowsSnr == {Row([VFLG |-> f, MSEL |-> m, MA3S |-> a]) :
               f \in {0, 1, 8}, m \in MselVals, a \in SnrVals}
\* rows for the longer tables: a row passes every test or fails one of them
\* when its selector is 1, and is good or already flagged
RowsMixed == {Row([VFLG |-> f, MSEL |-> m,
                   MSR1 |-> IF w = "peak" THEN DefaultPeakPower - 1 ELSE DefaultPeakPower,
                   MSW1 |-> IF w = "width" THEN DefaultHalfPowerWidth + 1
                                           ELSE DefaultHalfPowerWidth,
                   MA3S |-> IF w = "snr" THEN DefaultMonopoleSnr - 1
                                         ELSE DefaultMonopoleSnr]) :
               f \in {0, 2}, m \in {0, 1}, w \in {"none", "peak", "width", "snr"}}

TablesQC == {<<r>> : r \in RowsPeak \cup RowsWidth \cup RowsSnr}
            \cup UNION {[1..n -> RowsMixed] : n \in 2..MaxRowsQC}

\* rows for the averaging pipeline: two range cells, two bearings a quarter
\* turn apart, good and flagged rows; and good rows of the first range cell
\* reported at another longitude
RowsAvg == {Row([SPRC |-> r, RNGE |-> r, BEAR |-> b, VFLG |-> f, VELO |-> r + f]) :
               r \in {1, 2}, b \in {0, 90}, f \in {0, 2}}
           \cup {Row([BEAR |-> b, LOND |-> 1, VELO |-> 3]) : b \in {0, 90}}

TablesAvg == UNION {[1..n -> RowsAvg] : n \in 0..MaxRows}

SpreadVals == {0 - 90, 0, 90}
PolicyVals == {"MP", "SNR3", "none", "MEDIAN"}
TableTypes == {"LLUV RDL7", "LLUV RDL5"}

\* longest table given to weighted_velocities alone
MaxRowsWt == 3

\* good rows of one range cell for the weighting policies: velocities 2, 4, 6
\* at equal power; velocities 10 and 20 with selector 1 and velocity 10 with
\* selectors 2 and 3, the selected power column at 0 dB or 10 dB and the two
\* other power columns at the other of the two values (PowerRow); and one row
\* a quarter turn away
PowerRow(v, m, p) == Row([VELO |-> v, MSEL |-> m,
                          MSP1 |-> IF m = 1 THEN p ELSE 10 - p,
                          MDP1 |-> IF m = 2 THEN p ELSE 10 - p,
                          MDP2 |-> IF m = 3 THEN p ELSE 10 - p])

RowsWt == {Row([VELO |-> v]) : v \in {2, 4, 6}}
          \cup {PowerRow(v, 1, p) : v \in {10, 20}, p \in {0, 10}}
          \cup {PowerRow(10, m, p) : m \in {2, 3}, p \in {0, 10}}
          \cup {Row([BEAR |-> 90, VELO |-> 4])}

TablesWt == UNION {[1..n -> RowsWt] : n \in 0..MaxRowsWt}

PolicyValsWt == {"NONE", "none", "MP", "mp"}

-----------------------------------------------------------------------------
(* State machine *)

InitCommon ==
    /\ op = "init" /\ err = "none"
    /\ thr = <<>> /\ dq = <<>>
    /\ spread = 0 /\ policy = ""
    /\ xd = <<>> /\ xrows = <<>>
    /\ rsd = <<>> /\ rsdtypes = <<>> /\ skIn = <<>>

InitQC == d \in TablesQC /\ InitCommon
InitAvg == d \in TablesAvg /\ InitCommon

avgVars == <<spread, policy, xd, xrows, rsd, rsdtypes, skIn>>

\* the thresholds a test is called with: its default and the values next to it
Around(default) == {default - 1, default, default + 1}

PeakPower ==
    /\ op = "init"
    /\ \E threshold \in Around(DefaultPeakPower) :
         LET r == threshold_qc_doa_peak_power(d, threshold)
         IN  d' = r.arg /\ dq' = r.ret /\ thr' = <<threshold>>
    /\ op' = "peak" /\ err' = "none"
    /\ UNCHANGED avgVars

HalfPowerWidth ==
    /\ op = "init"
    /\ \E threshold \in Around(DefaultHalfPowerWidth) :
         LET r == threshold_qc_doa_half_power_width(d, threshold)
         IN  d' = r.arg /\ dq' = r.ret /\ thr' = <<threshold>>
    /\ op' = "width" /\ err' = "none"
    /\ UNCHANGED avgVars

MonopoleSnr ==
    /\ op = "init"
    /\ \E threshold \in Around(DefaultMonopoleSnr) :
         LET r == threshold_qc_monopole_snr(d, threshold)
         IN  d' = r.arg /\ dq' = r.ret /\ thr' = <<threshold>>
    /\ op' = "snr" /\ err' = "none"
    /\ UNCHANGED avgVars

All ==
    /\ op = "init"
    /\ \E thresholds \in {<<DefaultPeakPower + k, DefaultHalfPowerWidth + k,
                                DefaultMonopoleSnr + k>> : k \in {0 - 1, 0, 1}} :
         LET r == threshold_qc_all(d, thresholds)
         IN  d' = r.arg /\ dq' = r.ret /\ thr' = thresholds
    /\ op' = "all" /\ err' = "none"
    /\ UNCHANGED avgVars

NextQC == PeakPower \/ HalfPowerWidth \/ MonopoleSnr \/ All

SpecQC == InitQC /\ [][NextQC]_vars

\* xd, xtypes_str = weighted_velocities(d, types_str, bearing_spread, weight_parameter)
WeightedVelocities ==
    /\ op = "init"
    /\ \E bs \in SpreadVals, wp \in PolicyVals :
         LET r == weighted_velocities(d, bs, wp)
         IN  /\ d' = r.arg /\ err' = r.err
             /\ xd' = r.ret /\ xrows' = r.xrow
             /\ spread' = bs /\ policy' = wp
    /\ op' = "wv"
    /\ UNCHANGED <<thr, dq, rsd, rsdtypes, skIn>>

\* rsd, rsdtypes_str = generate_radialshort_array(d, types_str, table_type)
GenerateRadialshortArray ==
    /\ op = "wv" /\ err = "none"
    /\ \E tt \in TableTypes :
         LET r == generate_radialshort_array(d, tt)
         IN  d' = r.arg /\ rsd' = r.ret /\ rsdtypes' = r.types
    /\ op' = "gen" /\ err' = "none"
    /\ UNCHANGED <<thr, dq, spread, policy, xd, xrows, skIn>>

\* the skeleton with rows i and j exchanged
Swap(t, i, j) == [k \in 1..Len(t) |-> IF k = i THEN t[j] ELSE IF k = j THEN t[i] ELSE t[k]]

\* rsd = fill_radialshort_array(rsd, rsdtypes_str, xd, xtypes_str)[0], the
\* caller handing over the generated skeleton as it is (i = j) or with two
\* neighbouring rows exchanged
FillRadialshortArray ==
    /\ op = "gen"
    /\ \E i, j \in 1..(IF Len(rsd) = 0 THEN 1 ELSE Len(rsd)) :
         /\ j \in {i, i + 1}
         /\ LET sk == Swap(rsd, i, j)
                r == fill_radialshort_array(sk, rsdtypes, xd, xtypes_str)
            IN  /\ skIn' = sk
                /\ rsd' = r.arg /\ xd' = r.xarg /\ err' = r.err
    /\ op' = "fill"
    /\ UNCHANGED <<d, thr, dq, spread, policy, xrows, rsdtypes>>

NextAvg == WeightedVelocities \/ GenerateRadialshortArray \/ FillRadialshortArray

SpecAvg == InitAvg /\ [][NextAvg]_vars

\* every operation on every input table
InitAll == InitQC \/ InitAvg
NextAll == NextQC \/ NextAvg
SpecAll == InitAll /\ [][NextAll]_vars

\* weighted_velocities alone, on the tables of one range cell, with each
\* weight_parameter in both cases and bearing_spread 0
InitWt == d \in TablesWt /\ InitCommon

WeightedVelocitiesWt ==
    /\ op = "init"
    /\ \E wp \in PolicyValsWt :
         LET r == weighted_velocities(d, 0, wp)
         IN  /\ d' = r.arg /\ err' = r.err
             /\ xd' = r.ret /\ xrows' = r.xrow
             /\ spread' = 0 /\ policy' = wp
    /\ op' = "wv"
    /\ UNCHANGED <<thr, dq, rsd, rsdtypes, skIn>>

NextWt == WeightedVelocitiesWt

SpecWt == InitWt /\ [][NextWt]_vars

-----------------------------------------------------------------------------
(* Properties *)

\* bit k of the flag v
BitSet(v, k) == (v \div (2 ^ k)) % 2 = 1

ThresholdOps == {"peak", "width", "snr", "all"}

\* row i passed through the test unchanged in every column but VFLG
SameButVflg(i) ==
    /\ DOMAIN dq[i] = DOMAIN d[i]
    /\ \A name \in DOMAIN d[i] \ {"VFLG"} : dq[i][name] = d[i][name]

\* C1: after threshold_qc_all every row's VFLG is at least its VFLG before.
C1_VflgNonDecreasing ==
    op = "all" => /\ Len(dq) = Len(d)
                  /\ \A i \in 1..Len(d) : dq[i]["VFLG"] >= d[i]["VFLG"]

\* threshold_qc_all has raised the flag of a row by all three bits
C1_Witness ==
    /\ op = "all"
    /\ \E i \in 1..Len(d) : dq[i]["VFLG"] = d[i]["VFLG"] + Shl1(1) + Shl1(2) + Shl1(3)

\* C2: every bit set in a row's VFLG before a threshold test (each of the
\* three, or the composite) is still set after it, whatever bits it had.
C2_BitsKept ==
    op \in ThresholdOps =>
        \A i \in 1..Len(d) : \A k \in 0..d[i]["VFLG"] :
            BitSet(d[i]["VFLG"], k) => BitSet(dq[i]["VFLG"], k)

\* C3: a threshold test returns a table of the input's shape in which every
\* cell outside the VFLG column equals the input's cell.
C3_OnlyVflgChanges ==
    op \in ThresholdOps => /\ Len(dq) = Len(d)
                           /\ \A i \in 1..Len(d) : SameButVflg(i)

\* the half power width test has flagged one row of a longer table and
\* passed another
C3_Witness ==
    /\ op = "width" /\ Len(d) >= 2
    /\ \E i, j \in 1..Len(d) : /\ dq[i]["VFLG"] # d[i]["VFLG"]
                               /\ dq[j]["VFLG"] = d[j]["VFLG"]

\* some power column of the row is not a number
PowerNaN(row) == isnan(row["MSR1"]) \/ isnan(row["MDR1"]) \/ isnan(row["MDR2"])
WidthNaN(row) == isnan(row["MSW1"]) \/ isnan(row["MDW1"]) \/ isnan(row["MDW2"])

\* the row's selector is none of 1, 2, 3
NoChannel(row) == ~(FEq(row["MSEL"], 1) \/ FEq(row["MSEL"], 2) \/ FEq(row["MSEL"], 3))

\* C4: the peak power test sets bit 1 of a row that has it clear exactly
\* when the selected power is below the threshold or some power column is
\* NaN; MSR1 = NaN flags for every MSEL; with MSEL = 2 and no NaN the flag
\* follows MDR1 < threshold alone.
C4_PeakPowerFlag ==
    op = "peak" =>
        \A i \in 1..Len(d) :
            LET row == d[i]
                flagged == BitSet(dq[i]["VFLG"], 1)
            IN  ~BitSet(row["VFLG"], 1) =>
                  /\ flagged <=>
                       \/ (row["MSEL"] = 1 /\ FLt(row["MSR1"], thr[1]))
                       \/ (row["MSEL"] = 2 /\ FLt(row["MDR1"], thr[1]))
                       \/ (row["MSEL"] = 3 /\ FLt(row["MDR2"], thr[1]))
                       \/ PowerNaN(row)
                  /\ isnan(row["MSR1"]) => flagged
                  /\ (row["MSEL"] = 2 /\ ~PowerNaN(row)) =>
                        (flagged <=> row["MDR1"] < thr[1])

\* a row with MSEL = 2 and MDR1 below the threshold got bit 1 although its
\* MSR1 and MDR2 are not below it
C4_Witness ==
    /\ op = "peak"
    /\ \E i \in 1..Len(d) :
         /\ d[i]["MSEL"] = 2 /\ ~PowerNaN(d[i]) /\ ~BitSet(d[i]["VFLG"], 1)
         /\ d[i]["MDR1"] < thr[1] /\ d[i]["MSR1"] >= thr[1] /\ d[i]["MDR2"] >= thr[1]
         /\ BitSet(dq[i]["VFLG"], 1)

\* C5 as written: the peak power and the half power width test leave the
\* VFLG of a row whose MSEL is none of 1, 2, 3 as it was, whatever the three
\* channel columns hold.
C5_NoChannelUnflagged ==
    op \in {"peak", "width"} =>
        \A i \in 1..Len(d) : NoChannel(d[i]) => dq[i]["VFLG"] = d[i]["VFLG"]

\* C5 amended: ... provided none of the three channel columns of that test
\* is NaN.
C5_NoChannelNoNaNUnflagged ==
    /\ op = "peak" =>
         \A i \in 1..Len(d) :
            (NoChannel(d[i]) /\ ~PowerNaN(d[i])) => dq[i]["VFLG"] = d[i]["VFLG"]
    /\ op = "width" =>
         \A i \in 1..Len(d) :
            (NoChannel(d[i]) /\ ~WidthNaN(d[i])) => dq[i]["VFLG"] = d[i]["VFLG"]

\* the width test has passed a row without channel whose widths are all
\* above the threshold
C5_Witness ==
    /\ op = "width"
    /\ \E i \in 1..Len(d) :
         /\ NoChannel(d[i]) /\ ~WidthNaN(d[i])
         /\ d[i]["MSW1"] > thr[1] /\ d[i]["MDW1"] > thr[1] /\ d[i]["MDW2"] > thr[1]
         /\ dq[i]["VFLG"] = d[i]["VFLG"]

\* the columns fill_radialshort_array writes
FilledColumns == {"VELO", "ESPC", "MAXV", "MINV", "EDVC", "ERSC",
                  "VELU", "VELV", "HEAD", "XDST", "YDST"}

\* C6 as written: an operation that returns leaves every table handed to it
\* as it was: the radialmetric table, the averaged table and the skeleton
\* handed to fill_radialshort_array.
C6_NoInputMutated ==
    [][err' = "none" =>
         /\ d' = d
         /\ op' = "fill" => (xd' = xd /\ rsd' = skIn')]_vars

\* C6 amended: the threshold tests, weighted_velocities and
\* generate_radialshort_array leave the radialmetric table as it was and
\* fill_radialshort_array leaves the averaged table as it was; the skeleton
\* is filled in place: after a call that returns it differs from the
\* skeleton handed over in the filled columns only.
C6_InputsKeptButSkeleton ==
    [][/\ d' = d
       /\ op' = "fill" =>
            /\ xd' = xd
            /\ Len(rsd') = Len(skIn')
            /\ \A i \in 1..Len(skIn') :
                 \A name \in DOMAIN skIn'[i] \ FilledColumns : rsd'[i][name] = skIn'[i][name]]_vars

\* after weighted_velocities and generate_radialshort_array, a fill has
\* returned and has written into the two-row skeleton it was handed
C6_Witness ==
    /\ op = "fill" /\ err = "none"
    /\ Len(xd) >= 2 /\ Len(rsd) >= 2 /\ rsd # skIn


\* the (SPRC, BEAR) pairs of the rows of d with VFLG 0
GoodPairs == {<<d[j]["SPRC"], d[j]["BEAR"]>> : j \in {k \in 1..Len(d) : d[k]["VFLG"] = 0}}

\* C7: the skeleton and the averaged table computed from one table have the
\* same number of rows and the same (SPRC, BEAR) at every row index, also
\* when rows of one cell differ in LOND, LATD or RNGE.  (Stated for
\* bearing_spread >= 0, where every averaged row carries its cell.)
C7_RoundTripAligned ==
    (op = "gen" /\ rsdtypes # <<>> /\ spread >= 0) =>
        /\ Len(rsd) = Len(xd)
        /\ \A i \in 1..Len(rsd) : /\ rsd[i]["SPRC"] = xd[i]["SPRC"]
                                  /\ rsd[i]["BEAR"] = xd[i]["BEAR"]

\* C8: fill_radialshort_array fails with the alignment error whenever the
\* skeleton's sequence of (SPRC, BEAR) rows differs from the averaged
\* table's, and then leaves the skeleton as it was handed over.
C8_MisalignedFillFails ==
    (op = "fill" /\ rsdtypes # <<>> /\ Cells(skIn) # Cells(xd)) =>
        /\ err = "AssertionError"
        /\ rsd = skIn

\* fill has refused a skeleton whose rows are those of the averaged table's
\* cells in another order
C8_Witness ==
    /\ op = "fill" /\ err = "AssertionError" /\ rsd = skIn
    /\ Len(skIn) = Len(xd) /\ Len(xd) >= 2
    /\ Cells(skIn) # Cells(xd)
    /\ {Cells(skIn)[i] : i \in 1..Len(skIn)} = {Cells(xd)[i] : i \in 1..Len(xd)}

\* the rows of d in range cell r, bearings b - spread .. b + spread, VFLG 0
Sample(r, b) ==
    {j \in 1..Len(d) : /\ d[j]["SPRC"] = r
                       /\ b - spread <= d[j]["BEAR"] /\ d[j]["BEAR"] <= b + spread
                       /\ d[j]["VFLG"] = 0}

\* C9: the rows matched for an output row with cell (r, b) are the rows of
\* the whole input table with SPRC = r, b - spread <= BEAR <= b + spread
\* and VFLG = 0; EDVC and ERSC are their number; no row with VFLG # 0 is
\* matched for any output row.
C9_MatchedSample ==
    (op = "wv" /\ err = "none") =>
        /\ Len(xrows) = Len(xd)
        /\ \A irow \in 1..Len(xd) :
             ~isnan(xd[irow]["SPRC"]) =>
                LET M == Sample(xd[irow]["SPRC"], xd[irow]["BEAR"])
                IN  /\ {xrows[irow][k] : k \in 1..Len(xrows[irow])} = M
                    /\ Len(xrows[irow]) = Cardinality(M)
                    /\ xd[irow]["EDVC"] = Cardinality(M)
                    /\ xd[irow]["ERSC"] = Cardinality(M)
        /\ \A irow \in 1..Len(xd) : \A k \in 1..Len(xrows[irow]) :
             d[xrows[irow][k]]["VFLG"] = 0

\* a cell averaged over two rows, one of them at the edge of the bearing
\* window, while a flagged row inside the window was left out
C9_Witness ==
    /\ op = "wv" /\ err = "none" /\ spread > 0
    /\ \E irow \in 1..Len(xd) :
         /\ xd[irow]["EDVC"] = 2
         /\ \E k \in 1..2 : d[xrows[irow][k]]["BEAR"] = xd[irow]["BEAR"] + spread
         /\ \E j \in 1..Len(d) : /\ d[j]["SPRC"] = xd[irow]["SPRC"]
                                 /\ d[j]["BEAR"] = xd[irow]["BEAR"]
                                 /\ d[j]["VFLG"] # 0

\* the averaged table has one row for each good (SPRC, BEAR) pair of d, in
\* strictly ascending order of (SPRC, BEAR), and is the same for d with any
\* two rows exchanged (every reordering is a chain of exchanges, and the
\* input tables are all the sequences of their rows)
OneSortedRowPerGoodPair ==
    /\ Len(xd) = Cardinality(GoodPairs)
    /\ {Cells(xd)[i] : i \in 1..Len(xd)} = GoodPairs
    /\ \A i \in 1..(Len(xd) - 1) :
         \/ xd[i]["SPRC"] < xd[i + 1]["SPRC"]
         \/ xd[i]["SPRC"] = xd[i + 1]["SPRC"] /\ xd[i]["BEAR"] < xd[i + 1]["BEAR"]
    /\ \A i, j \in 1..Len(d) :
         i < j => weighted_velocities(Swap(d, i, j), spread, policy).ret = xd

\* C10 as written: the averaged table has exactly one row per distinct
\* (SPRC, BEAR) pair that occurs on a row with VFLG 0, in strictly ascending
\* order of (SPRC, BEAR), whatever the order of the input rows.
C10_OneSortedRowPerGoodPair ==
    (op = "wv" /\ err = "none") => OneSortedRowPerGoodPair

\* C10 amended: ... when bearing_spread >= 0.
C10_OneSortedRowPerGoodPairNonNegSpread ==
    (op = "wv" /\ err = "none" /\ spread >= 0) => OneSortedRowPerGoodPair

\* three input rows out of order, two of them of one cell, averaged into two
\* rows
C10_Witness ==
    /\ op = "wv" /\ err = "none" /\ spread >= 0
    /\ Len(d) = 3 /\ Len(xd) = 2
    /\ \A j \in 1..Len(d) : d[j]["VFLG"] = 0
    /\ LexLt(<<d[3]["SPRC"], d[3]["BEAR"]>>, <<d[1]["SPRC"], d[1]["BEAR"]>>)

\* the velocities of the input table, by row
Velocities == [j \in 1..Len(d) |-> d[j]["VELO"]]

\* C11: with weight policy 'NONE' in either case the call succeeds, and for
\* every output row with a cell VELO is the sum of the matched velocities
\* divided by their number, MAXV is the largest and MINV the smallest of
\* them, and EDVC = ERSC = their number.
C11_NoneIsArithmeticMean ==
    (op = "wv" /\ policy \in {"NONE", "none"}) =>
        /\ err = "none"
        /\ \A irow \in 1..Len(xd) :
             ~isnan(xd[irow]["SPRC"]) =>
                LET M == Sample(xd[irow]["SPRC"], xd[irow]["BEAR"])
                    n == Cardinality(M)
                    total == SumOver(Velocities, AscSeq(M))
                IN  /\ n >= 1
                    /\ xd[irow]["VELO"][2] > 0
                    /\ xd[irow]["VELO"][1] * n = total * xd[irow]["VELO"][2]
                    /\ xd[irow]["MAXV"] \in {Velocities[j] : j \in M}
                    /\ \A j \in M : Velocities[j] <= xd[irow]["MAXV"]
                    /\ xd[irow]["MINV"] \in {Velocities[j] : j \in M}
                    /\ \A j \in M : Velocities[j] >= xd[irow]["MINV"]
                    /\ xd[irow]["EDVC"] = n
                    /\ xd[irow]["ERSC"] = n

\* matched velocities 2, 4, 6 averaged without weights in lower case: VELO 4,
\* MAXV 6, MINV 2, counts 3
C11_Witness ==
    /\ op = "wv" /\ err = "none" /\ policy = "none"
    /\ Len(xd) = 1 /\ Len(d) = 3
    /\ {Velocities[j] : j \in Sample(xd[1]["SPRC"], xd[1]["BEAR"])} = {2, 4, 6}
    /\ xd[1]["VELO"] = <<4, 1>>
    /\ xd[1]["MAXV"] = 6 /\ xd[1]["MINV"] = 2
    /\ xd[1]["EDVC"] = 3 /\ xd[1]["ERSC"] = 3

\* the power in dB of input row j in the column its own MSEL names
SelectedPower(j) ==
    CASE d[j]["MSEL"] = 1 -> d[j]["MSP1"]
      [] d[j]["MSEL"] = 2 -> d[j]["MDP1"]
      [] d[j]["MSEL"] = 3 -> d[j]["MDP2"]

\* 10^(dB/10) of the selected power of each input row whose MSEL is 1, 2 or 3
LinearPower ==
    [j \in 1..Len(d) |-> IF d[j]["MSEL"] \in {1, 2, 3}
                           THEN 10 ^ (SelectedPower(j) \div 10) ELSE 0]

\* the two matched rows of the example: MSEL 1, MSP1 0 dB with velocity 10
\* and MSEL 1, MSP1 10 dB with velocity 20
ExampleRows(M) ==
    /\ Cardinality(M) = 2
    /\ \A j \in M : d[j]["MSEL"] = 1
    /\ {<<d[j]["MSP1"], d[j]["VELO"]>> : j \in M} = {<<0, 10>>, <<10, 20>>}

\* C12: with weight policy 'MP', for every output row whose matched rows
\* all have MSEL 1, 2 or 3, VELO is the sum of the matched velocities each
\* multiplied by its weight, the weight of a row being 10^(dB/10) of the
\* power column its own MSEL selects divided by the sum of those powers over
\* the matched rows; for the two rows of the example VELO is 210/11, strictly
\* between 15 and 20.
C12_PowerWeightedMean ==
    (op = "wv" /\ err = "none" /\ policy \in {"MP", "mp"}) =>
        \A irow \in 1..Len(xd) :
            LET M == Sample(xd[irow]["SPRC"], xd[irow]["BEAR"])
                W == SumOver(LinearPower, AscSeq(M))
                VW == SumOver([j \in 1..Len(d) |-> Velocities[j] * LinearPower[j]],
                              AscSeq(M))
                velo == xd[irow]["VELO"]
            IN  (~isnan(xd[irow]["SPRC"]) /\ \A j \in M : d[j]["MSEL"] \in {1, 2, 3}) =>
                    /\ W > 0 /\ velo[2] > 0
                    /\ velo[1] * W = VW * velo[2]
                    /\ ExampleRows(M) =>
                          /\ velo = <<210, 11>>
                          /\ 15 * velo[2] < velo[1] /\ velo[1] < 20 * velo[2]

\* the example averaged: one output row over the two rows, VELO 210/11
C12_Witness ==
    /\ op = "wv" /\ err = "none" /\ policy = "MP"
    /\ Len(xd) = 1 /\ Len(d) = 2
    /\ ExampleRows(Sample(xd[1]["SPRC"], xd[1]["BEAR"]))
    /\ xd[1]["VELO"] = <<210, 11>>
    /\ xd[1]["EDVC"] = 2

\* no cell of SPRC, BEAR or VFLG of the input table is NaN
NoNaNInCellColumns ==
    \A j \in 1..Len(d) :
        ~isnan(d[j]["SPRC"]) /\ ~isnan(d[j]["BEAR"]) /\ ~isnan(d[j]["VFLG"])

\* input row j is a good row of the cell of output row irow
SeedOf(j, irow) ==
    /\ d[j]["SPRC"] = xd[irow]["SPRC"]
    /\ d[j]["BEAR"] = xd[irow]["BEAR"]
    /\ d[j]["VFLG"] = 0

\* C13: when SPRC, BEAR and VFLG hold no NaN and bearing_spread >= 0, every
\* output row of weighted_velocities has matched at least one row, a good
\* row of its own cell among them, none is left all-NaN, SPRC and BEAR are
\* filled and EDVC = ERSC >= 1; an all-NaN output row occurs only with a
\* negative bearing_spread.
C13_SeedAlwaysMatched ==
    (op = "wv" /\ err = "none" /\ NoNaNInCellColumns) =>
        /\ spread >= 0 =>
              \A irow \in 1..Len(xd) :
                  /\ Len(xrows[irow]) >= 1
                  /\ \E k \in 1..Len(xrows[irow]) : SeedOf(xrows[irow][k], irow)
                  /\ xd[irow] # NaNRow(xtypes_str)
                  /\ ~isnan(xd[irow]["SPRC"]) /\ ~isnan(xd[irow]["BEAR"])
                  /\ xd[irow]["EDVC"] = xd[irow]["ERSC"]
                  /\ xd[irow]["EDVC"] >= 1
        /\ (\E irow \in 1..Len(xd) : xd[irow] = NaNRow(xtypes_str)) => spread < 0

\* two cells averaged at bearing_spread 0, each over its seeding row alone,
\* while a flagged row of the table seeded no cell
C13_Witness ==
    /\ op = "wv" /\ err = "none" /\ spread = 0
    /\ Len(d) = 3 /\ Len(xd) = 2
    /\ \E j \in 1..Len(d) : d[j]["VFLG"] # 0
    /\ \A irow \in 1..Len(xd) :
         /\ xd[irow]["EDVC"] = 1
         /\ SeedOf(xrows[irow][1], irow)

====
